---- MODULE Spec2Model ----
(***************************************************************************)
(* Authentication layer of the API: the credential hasher, the token       *)
(* issuer/verifier, the protect middleware, and the sign-up and sign-in    *)
(* handlers over the User table.                                           *)
(*                                                                         *)
(* Every request occupies a slot.  The synchronous handlers (GET "/" and   *)
(* protect) run to completion in the step in which the request arrives.    *)
(* The async handlers (createNewUser, signin) suspend at each await, and   *)
(* one action resumes them from one await to the next, so that the steps   *)
(* of concurrent requests interleave exactly at the awaits.                *)
(*                                                                         *)
(* Strings of the program are strings here.  bcryptjs and jsonwebtoken are *)
(* modelled by tables: a hash and a token are strings different from       *)
(* their inputs, and verification looks the string up again.               *)
(***************************************************************************)
EXTENDS Naturals, Sequences, FiniteSets

\* ------------------------------------------------------------ bounds
MaxInflight == 2      \* request slots that can be in flight together
MaxHeaderLen == 4     \* symbols in an Authorization header value

\* ------------------------------------------------------------ values
Slots == 1..MaxInflight

Usernames == {"u1", "u2"}
Passwords == {"p1", "p2"}
Undefined == "undefined"
\* what a JSON body can carry in its password field
BodyPasswords == Passwords \cup {Undefined}
\* the salt bcryptjs generates for a hash
Salts == {"s1"}
Ids == {"id1", "id2"}

\* option values: <<>> is null/undefined, <<x>> is the value x
None == <<>>
Some(x) == <<x>>

\* process.env.JWT_SECRET, and a secret of somebody else
JWT_SECRET == "secret"
OtherSecret == "other"

\* ------------------------------------------------------------ bcryptjs
BcryptTable ==
  { [plain |-> "p1", salt |-> "s1", hash |-> "$2a$10$s1.p1"],
    [plain |-> "p2", salt |-> "s1", hash |-> "$2a$10$s1.p2"] }

Hashes == { e.hash : e \in BcryptTable }

\* the settled value of the promise: bcryptjs rejects a non-string argument
hashPassword_plaintext(password, salt) ==
  IF password \in Passwords
    THEN [rejected |-> FALSE, value |-> password]
    ELSE [rejected |-> TRUE, value |-> "Illegal arguments"]

hashPassword(password, salt) ==
  IF password \in Passwords
    THEN [rejected |-> FALSE,
          value |-> (CHOOSE e \in BcryptTable :
                       e.plain = password /\ e.salt = salt).hash]
    ELSE [rejected |-> TRUE, value |-> "Illegal arguments"]

comparePasswords_always(password, hash) ==
  IF password \in Passwords
    THEN [rejected |-> FALSE, value |-> TRUE]
    ELSE [rejected |-> TRUE, value |-> FALSE]

comparePasswords(password, hash) ==
  IF password \in Passwords
    THEN [rejected |-> FALSE,
          value |-> \E e \in BcryptTable : e.hash = hash /\ e.plain = password]
    ELSE [rejected |-> TRUE, value |-> FALSE]

\* ------------------------------------------------------------ jsonwebtoken
JwtTable ==
  { [token |-> "jwt.id1.u1.secret", id |-> "id1", username |-> "u1", key |-> "secret"],
    [token |-> "jwt.id1.u2.secret", id |-> "id1", username |-> "u2", key |-> "secret"],
    [token |-> "jwt.id2.u1.secret", id |-> "id2", username |-> "u1", key |-> "secret"],
    [token |-> "jwt.id2.u2.secret", id |-> "id2", username |-> "u2", key |-> "secret"],
    [token |-> "jwt.id1.u1.other", id |-> "id1", username |-> "u1", key |-> "other"],
    [token |-> "jwt.id1.u2.other", id |-> "id1", username |-> "u2", key |-> "other"],
    [token |-> "jwt.id2.u1.other", id |-> "id2", username |-> "u1", key |-> "other"],
    [token |-> "jwt.id2.u2.other", id |-> "id2", username |-> "u2", key |-> "other"] }

Tokens == { e.token : e \in JwtTable }

jwtSign(payload, key) ==
  (CHOOSE e \in JwtTable :
     e.id = payload.id /\ e.username = payload.username /\ e.key = key).token

\* jwt.verify of the string spelled by the symbols of `segment`: the payload, or
\* a throw.  Only a string that is exactly one token signed with `key` verifies.
jwtVerify(segment, key) ==
  IF Len(segment) = 1 /\ \E e \in JwtTable : e.token = segment[1] /\ e.key = key
    THEN LET e == CHOOSE e \in JwtTable : e.token = segment[1] /\ e.key = key
         IN  [ok |-> TRUE,
              payload |-> [id |-> e.id, username |-> e.username, iat |-> "iat"]]
    ELSE [ok |-> FALSE,
          payload |-> [id |-> "", username |-> "", iat |-> ""]]

createJWT_otherKey(user) ==
  jwtSign([id |-> user.id, username |-> user.username], OtherSecret)

createJWT(user) ==
  jwtSign([id |-> user.id, username |-> user.username], JWT_SECRET)

\* ------------------------------------------------------------ state
VARIABLES
  store,    \* the rows of the User table
  reqs,     \* slot -> the request in the slot and where its handler stands
  issued    \* the tokens returned in {token} responses so far

vars == <<store, reqs, issued>>

Idle ==
  [kind |-> "none", pc |-> "idle",
   header |-> None, username |-> "", password |-> "",
   hashed |-> None, user |-> None, identity |-> None,
   calls |-> <<>>, sent |-> <<>>, error |-> "none", unhandled |-> FALSE,
   nextCalls |-> 0, verifyCalls |-> 0]

Init ==
  /\ store = {}
  /\ reqs = [s \in Slots |-> Idle]
  /\ issued = {}

\* ------------------------------------------------------------ responses
Resp(status, field, value) == [status |-> status, field |-> field, value |-> value]

\* res.send / res.json: the first call answers the request; a later call finds the
\* headers already sent and throws ERR_HTTP_HEADERS_SENT
ResSend(r, resp) ==
  [r EXCEPT !.calls = Append(@, resp),
            !.sent = IF r.sent = <<>> THEN <<resp>> ELSE @,
            !.error = IF r.sent = <<>> THEN @ ELSE "ERR_HTTP_HEADERS_SENT"]

\* an async handler's promise rejects.  Nothing in the handlers catches it: the
\* router either leaves the rejection unhandled (the request gets no response) or
\* forwards it to the default error handler, which answers 500.  The handler's
\* frame is gone either way.
Rejections(r, err) ==
  LET failed == [r EXCEPT !.pc = "done", !.error = err,
                          !.hashed = None, !.password = ""]
  IN  { [failed EXCEPT !.unhandled = TRUE],
        ResSend(failed, Resp(500, "text", "Internal Server Error")) }

\* ------------------------------------------------------------ protect
RECURSIVE SplitFrom(_, _, _, _)
SplitFrom(h, i, cur, acc) ==
  IF i > Len(h) THEN Append(acc, cur)
  ELSE IF h[i] = " " THEN SplitFrom(h, i + 1, <<>>, Append(acc, cur))
  ELSE SplitFrom(h, i + 1, Append(cur, h[i]), acc)

\* String.prototype.split(" ")
Split(h) == SplitFrom(h, 1, <<>>, <<>>)

\* the synchronous middleware, applied to the request record.  next() hands the
\* request to the router's next layer, which catches what that layer throws, so
\* next() returns normally.
protect_noHeaderCheck(r) ==
  LET bearer == r.header
      parts == IF bearer = None THEN <<>> ELSE Split(bearer[1])
      verified == jwtVerify(IF Len(parts) >= 2 THEN parts[2] ELSE <<>>, JWT_SECRET)
      r1 == [r EXCEPT !.verifyCalls = @ + 1]
  IN  IF verified.ok
        THEN [r1 EXCEPT !.identity = Some(verified.payload), !.nextCalls = @ + 1]
        ELSE ResSend(r1, Resp(401, "message", "Invalid token"))

protect_nextAfterReject(r) ==
  LET bearer == r.header
  IN  IF bearer = None \/ bearer[1] = <<>>
        THEN ResSend(r, Resp(401, "message", "Unauthorized"))
      ELSE
        LET parts == Split(bearer[1])
        IN  IF Len(parts) < 2 \/ parts[2] = <<>>
              THEN ResSend(r, Resp(401, "message", "No token provided"))
            ELSE
              LET verified == jwtVerify(parts[2], JWT_SECRET)
                  r1 == [r EXCEPT !.verifyCalls = @ + 1]
              IN  IF verified.ok
                    THEN [r1 EXCEPT !.identity = Some(verified.payload),
                                    !.nextCalls = @ + 1]
                    ELSE [ResSend(r1, Resp(401, "message", "Invalid token"))
                            EXCEPT !.nextCalls = @ + 1]

protect(r) ==
  LET bearer == r.header
  IN  IF bearer = None \/ bearer[1] = <<>>
        THEN ResSend(r, Resp(401, "message", "Unauthorized"))
      ELSE
        LET parts == Split(bearer[1])
        IN  IF Len(parts) < 2 \/ parts[2] = <<>>
              THEN ResSend(r, Resp(401, "message", "No token provided"))
            ELSE
              LET verified == jwtVerify(parts[2], JWT_SECRET)
                  r1 == [r EXCEPT !.verifyCalls = @ + 1]
              IN  IF verified.ok
                    THEN [r1 EXCEPT !.identity = Some(verified.payload),
                                    !.nextCalls = @ + 1]
                    ELSE ResSend(r1, Resp(401, "message", "Invalid token"))

\* ------------------------------------------------------------ requests
Free(s) == reqs[s].pc = "idle"

\* GET "/"
ArriveRoot(s) ==
  /\ Free(s)
  /\ LET r0 == [Idle EXCEPT !.kind = "root"]
         r1 == ResSend(r0, Resp(200, "text", "Hello world"))
         r2 == ResSend(r1, Resp(200, "message", "hello"))
     IN  reqs' = [reqs EXCEPT ![s] = [r2 EXCEPT !.pc = "done"]]
  /\ UNCHANGED <<store, issued>>

\* a request on a route behind protect, with Authorization header value `h`
\* (None when the header is absent)
ProtectRequest(h) == [Idle EXCEPT !.kind = "protect", !.pc = "arrived", !.header = h]

ArriveProtect(s, h) ==
  /\ Free(s)
  /\ reqs' = [reqs EXCEPT ![s] = ProtectRequest(h)]
  /\ UNCHANGED <<store, issued>>

\* the router calls the middleware
RunProtect(s) ==
  /\ reqs[s].kind = "protect" /\ reqs[s].pc = "arrived"
  /\ reqs' = [reqs EXCEPT ![s] = [protect(reqs[s]) EXCEPT !.pc = "done"]]
  /\ UNCHANGED <<store, issued>>

\* POST /api/users: createNewUser runs up to `await hashPassword(...)`
ArriveSignup(s, u, p) ==
  /\ Free(s)
  /\ reqs' = [reqs EXCEPT ![s] =
                [Idle EXCEPT !.kind = "signup", !.pc = "hashing",
                             !.username = u, !.password = p]]
  /\ UNCHANGED <<store, issued>>

\* the hash settles; on success prisma.user.create is called and awaited
HashSettle(s) ==
  /\ reqs[s].kind = "signup" /\ reqs[s].pc = "hashing"
  /\ \E salt \in Salts :
       LET h == hashPassword(reqs[s].password, salt)
       IN  IF h.rejected
             THEN \E r2 \in Rejections(reqs[s], "IllegalArguments") :
                    reqs' = [reqs EXCEPT ![s] = r2]
             ELSE reqs' = [reqs EXCEPT ![s].pc = "creating",
                                       ![s].hashed = Some(h.value)]
  /\ UNCHANGED <<store, issued>>

\* the INSERT reaches the table: the unique index on username rejects a duplicate
\* (Prisma's P2002), otherwise the row is stored under a fresh id
DbCreate_noUniqueIndex(s) ==
  /\ reqs[s].kind = "signup" /\ reqs[s].pc = "creating"
  /\ \E id \in Ids \ { a.id : a \in store } :
       LET row == [id |-> id, username |-> reqs[s].username,
                   password |-> reqs[s].hashed[1]]
       IN  /\ store' = store \cup {row}
           /\ reqs' = [reqs EXCEPT ![s].pc = "created", ![s].user = Some(row)]
  /\ UNCHANGED issued

DbCreate(s) ==
  /\ reqs[s].kind = "signup" /\ reqs[s].pc = "creating"
  /\ IF \E a \in store : a.username = reqs[s].username
       THEN /\ \E r2 \in Rejections(reqs[s], "P2002") :
                 reqs' = [reqs EXCEPT ![s] = r2]
            /\ UNCHANGED store
       ELSE \E id \in Ids \ { a.id : a \in store } :
              LET row == [id |-> id, username |-> reqs[s].username,
                          password |-> reqs[s].hashed[1]]
              IN  /\ store' = store \cup {row}
                  /\ reqs' = [reqs EXCEPT ![s].pc = "created", ![s].user = Some(row)]
  /\ UNCHANGED issued

\* create resolved: createJWT(user); res.json({ token })
SignupRespond(s) ==
  /\ reqs[s].kind = "signup" /\ reqs[s].pc = "created"
  /\ LET token == createJWT(reqs[s].user[1])
     IN  /\ reqs' = [reqs EXCEPT ![s] =
                       [ResSend(reqs[s], Resp(200, "token", token))
                          EXCEPT !.pc = "done", !.hashed = None]]
         /\ issued' = issued \cup {token}
  /\ UNCHANGED store

\* POST /api/signin: signin runs up to `await prisma.user.findUnique(...)`
ArriveSignin(s, u, p) ==
  /\ Free(s)
  /\ reqs' = [reqs EXCEPT ![s] =
                [Idle EXCEPT !.kind = "signin", !.pc = "finding",
                             !.username = u, !.password = p]]
  /\ UNCHANGED <<store, issued>>

\* findUnique resolves with the row or null; `user.password` is then read, which
\* throws a TypeError on null, and comparePasswords is called and awaited
DbFind(s) ==
  /\ reqs[s].kind = "signin" /\ reqs[s].pc = "finding"
  /\ LET found == { a \in store : a.username = reqs[s].username }
     IN  IF found = {}
           THEN \E r2 \in Rejections(reqs[s], "TypeError") :
                  reqs' = [reqs EXCEPT ![s] = r2]
           ELSE reqs' = [reqs EXCEPT ![s].pc = "comparing",
                                     ![s].user = Some(CHOOSE a \in found : TRUE)]
  /\ UNCHANGED <<store, issued>>

\* the comparison settles: 401 on a mismatch, otherwise createJWT and {token}
CompareSettle(s) ==
  /\ reqs[s].kind = "signin" /\ reqs[s].pc = "comparing"
  /\ LET isValid == comparePasswords(reqs[s].password, reqs[s].user[1].password)
     IN  IF isValid.rejected
           THEN /\ \E r2 \in Rejections(reqs[s], "IllegalArguments") :
                     reqs' = [reqs EXCEPT ![s] = r2]
                /\ UNCHANGED issued
         ELSE IF ~isValid.value
           THEN /\ reqs' = [reqs EXCEPT ![s] =
                              [ResSend(reqs[s], Resp(401, "message", "Invalid Credentials"))
                                 EXCEPT !.pc = "done"]]
                /\ UNCHANGED issued
         ELSE LET token == createJWT(reqs[s].user[1])
              IN  /\ reqs' = [reqs EXCEPT ![s] =
                                [ResSend(reqs[s], Resp(200, "token", token))
                                   EXCEPT !.pc = "done"]]
                  /\ issued' = issued \cup {token}
  /\ UNCHANGED store

\* the request is over: its response went out or its handler failed, and the
\* server goes on to serve other requests
CloseRequest(s) ==
  /\ reqs[s].pc = "done"
  /\ reqs' = [reqs EXCEPT ![s] = Idle]
  /\ UNCHANGED <<store, issued>>

\* ------------------------------------------------------------ inputs
RECURSIVE SeqsUpTo(_, _)
SeqsUpTo(S, n) ==
  IF n = 0 THEN {<<>>}
  ELSE LET shorter == SeqsUpTo(S, n - 1)
       IN  shorter \cup { Append(q, x) : q \in shorter, x \in S }

\* the pieces a header value is made of: the scheme word, a space, a string that
\* is no token, two tokens signed with the secret and one signed with another
HeaderSymbols ==
  {"Bearer", " ", "garbage",
   "jwt.id1.u1.secret", "jwt.id2.u1.secret", "jwt.id1.u1.other"}

\* every Authorization header: absent, or a value of at most MaxHeaderLen symbols
AllHeaders == {None} \cup { Some(h) : h \in SeqsUpTo(HeaderSymbols, MaxHeaderLen) }

BearerHeader(t) == Some(<<"Bearer", " ", t>>)

\* what a client of the running service presents: nothing, a made-up token, a
\* token signed by somebody else, or a token the service returned to it
ClientHeaders ==
  { BearerHeader(t) : t \in {"garbage"} \cup issued }

\* ------------------------------------------------------------ specifications
Next ==
  \E s \in Slots :
    \/ ArriveRoot(s)
    \/ \E h \in ClientHeaders : ArriveProtect(s, h)
    \/ RunProtect(s)
    \/ \E u \in Usernames, p \in BodyPasswords : ArriveSignup(s, u, p)
    \/ HashSettle(s)
    \/ DbCreate(s)
    \/ SignupRespond(s)
    \/ \E u \in Usernames, p \in BodyPasswords : ArriveSignin(s, u, p)
    \/ DbFind(s)
    \/ CompareSettle(s)
    \/ CloseRequest(s)

Spec == Init /\ [][Next]_vars

\* the middleware alone, over every header
InitProtect ==
  /\ store = {}
  /\ issued = {}
  /\ \E h \in AllHeaders :
       reqs = [s \in Slots |-> IF s = 1 THEN ProtectRequest(h) ELSE Idle]

NextProtect == RunProtect(1)

SpecProtect == InitProtect /\ [][NextProtect]_vars

\* ------------------------------------------------------------ properties
ProtectDone(s) == reqs[s].kind = "protect" /\ reqs[s].pc = "done"
SignupDone(s) == reqs[s].kind = "signup" /\ reqs[s].pc = "done"
SigninDone(s) == reqs[s].kind = "signin" /\ reqs[s].pc = "done"

Unauthorized == Resp(401, "message", "Unauthorized")
NoTokenProvided == Resp(401, "message", "No token provided")
InvalidToken == Resp(401, "message", "Invalid token")
InvalidCredentials == Resp(401, "message", "Invalid Credentials")

\* the request carries a header from which the middleware takes a token
TakesToken(r) ==
  /\ r.header # None
  /\ Len(Split(r.header[1])) >= 2
  /\ Split(r.header[1])[2] # <<>>

TakenToken(r) == Split(r.header[1])[2]

\* `t` is a token whose signature checks against the signing secret, and `a` is
\* the account it names
TokenNames(t, a) ==
  \E e \in JwtTable :
    e.token = t /\ e.key = JWT_SECRET /\ e.id = a.id /\ e.username = a.username

\* `hash` is a bcrypt hash of the plaintext `password`
IsHashOf(hash, password) ==
  \E e \in BcryptTable : e.hash = hash /\ e.plain = password

\* C1: a protect request whose token verifies against the signing secret gets the
\* decoded payload attached as its identity, has next called exactly once and gets
\* no response from the middleware; one whose token fails verification gets
\* 401 {message: "Invalid token"}, next is never called and no identity is attached.
C1_VerifyOutcome ==
  \A s \in Slots :
    (ProtectDone(s) /\ TakesToken(reqs[s])) =>
      LET r == reqs[s]
          v == jwtVerify(TakenToken(r), JWT_SECRET)
      IN  IF v.ok
            THEN /\ r.identity = Some(v.payload)
                 /\ r.nextCalls = 1
                 /\ r.calls = <<>> /\ r.sent = <<>>
            ELSE /\ r.calls = <<InvalidToken>> /\ r.sent = <<InvalidToken>>
                 /\ r.nextCalls = 0
                 /\ r.identity = None

C1_Witness ==
  \E s \in Slots :
    /\ ProtectDone(s) /\ TakesToken(reqs[s])
    /\ reqs[s].header = BearerHeader("jwt.id2.u1.secret")
    /\ reqs[s].nextCalls = 1

\* C2: a protect request with no Authorization header gets
\* 401 {message: "Unauthorized"}; the verifier is not called, next is not called
\* and no identity is attached.
C2_NoHeader ==
  \A s \in Slots :
    (ProtectDone(s) /\ reqs[s].header = None) =>
      /\ reqs[s].calls = <<Unauthorized>> /\ reqs[s].sent = <<Unauthorized>>
      /\ reqs[s].verifyCalls = 0
      /\ reqs[s].nextCalls = 0
      /\ reqs[s].identity = None

C2_Witness ==
  \E s \in Slots : ProtectDone(s) /\ reqs[s].header = None

\* the header value starts with the scheme word
SchemePrefixed(h) == Len(h) >= 1 /\ h[1] = "Bearer"

\* ... and something other than spaces follows the space after it
CarriesToken(h) ==
  /\ SchemePrefixed(h)
  /\ \E i \in 1..Len(h) : h[i] = " " /\ \E j \in (i + 1)..Len(h) : h[j] # " "

\* C3: a protect request whose header is present but carries no token segment
\* after the scheme prefix gets 401 {message: "No token provided"} without the
\* verifier or next being called; and every header that does carry a token segment
\* after the scheme prefix reaches verification and is not answered
\* "No token provided".
C3_TokenSegment ==
  \A s \in Slots :
    (ProtectDone(s) /\ reqs[s].header # None) =>
      LET r == reqs[s]
          h == r.header[1]
      IN  /\ (SchemePrefixed(h) /\ ~CarriesToken(h)) =>
                /\ r.calls = <<NoTokenProvided>>
                /\ r.verifyCalls = 0
                /\ r.nextCalls = 0
          /\ CarriesToken(h) =>
                /\ r.verifyCalls = 1
                /\ \A i \in 1..Len(r.calls) : r.calls[i] # NoTokenProvided

C5_UnknownUser ==
  \A s \in Slots :
    (SigninDone(s) /\ reqs[s].user = None) =>
      /\ ~reqs[s].unhandled
      /\ Len(reqs[s].sent) = 1
      /\ reqs[s].sent[1].status \in {401, 404}
      /\ reqs[s].sent[1].field # "token"

\* C6: a sign-up that loses to an account with the same username, created
\* concurrently or earlier, gets a conflict error response and does not end in an
\* unhandled failure.
C6_DuplicateSignup ==
  \A s \in Slots :
    (SignupDone(s) /\ reqs[s].error = "P2002") =>
      /\ ~reqs[s].unhandled
      /\ Len(reqs[s].sent) = 1
      /\ reqs[s].sent[1].status \in {401, 409}
      /\ reqs[s].sent[1].field = "message"

\* C7: every account's password field holds the hash of the password given at
\* sign-up and never the plaintext; the hash exists before create is called, and a
\* sign-up whose hashing fails creates no account.
C7_StoredHash ==
  /\ \A a \in store : a.password \in Hashes /\ a.password \notin BodyPasswords
  /\ \A s \in Slots :
       LET r == reqs[s]
       IN  /\ (r.kind = "signup" /\ r.pc = "creating") =>
                r.hashed # None /\ IsHashOf(r.hashed[1], r.password)
           /\ (r.kind = "signup" /\ r.user # None) =>
                /\ r.user[1] \in store
                /\ r.user[1].username = r.username
                /\ IsHashOf(r.user[1].password, r.password)
                /\ r.user[1].password # r.password
           /\ (r.kind = "signup" /\ r.error = "IllegalArguments") =>
                r.user = None /\ r.hashed = None

C7_Witness ==
  \E s, t \in Slots :
    /\ SignupDone(s) /\ reqs[s].user # None /\ reqs[s].user[1] \in store
    /\ SignupDone(t) /\ reqs[t].error = "IllegalArguments"

\* C8: every token returned by sign-up or sign-in verifies under the signing
\* secret with the id and username of the account it was issued for, and a protect
\* request presenting it as "Bearer <token>", whatever sign-ups and sign-ins came
\* in between, continues to next with that account's id and username as identity.
C8_TokenRoundTrip ==
  /\ \A t \in issued :
       /\ jwtVerify(<<t>>, JWT_SECRET).ok
       /\ \E a \in store : TokenNames(t, a)
  /\ \A s \in Slots :
       LET r == reqs[s]
       IN  /\ (r.kind \in {"signup", "signin"} /\ r.pc = "done"
                 /\ Len(r.sent) = 1 /\ r.sent[1].field = "token") =>
                LET v == jwtVerify(<<r.sent[1].value>>, JWT_SECRET)
                IN  /\ r.sent[1].value \in issued
                    /\ v.ok
                    /\ v.payload.id = r.user[1].id
                    /\ v.payload.username = r.user[1].username
           /\ (ProtectDone(s) /\ \E t \in issued : r.header = BearerHeader(t)) =>
                /\ r.nextCalls = 1
                /\ r.calls = <<>>
                /\ r.identity # None
                /\ \E a \in store :
                     /\ r.identity[1].id = a.id
                     /\ r.identity[1].username = a.username
                     /\ TokenNames(r.header[1][3], a)

C8_Witness ==
  \E s \in Slots :
    /\ ProtectDone(s)
    /\ reqs[s].header = BearerHeader("jwt.id2.u1.secret")
    /\ reqs[s].nextCalls = 1
    /\ Cardinality(store) = 2
    /\ \E t \in Slots : SigninDone(t) /\ reqs[t].error = "none"

UniqueUsernames ==
  \A a, b \in store : a.username = b.username => a = b

\* the step changes the table only by adding the row of a sign-up whose create
\* succeeds in this step
StoreChangesOnlyBySignup ==
  store' # store =>
    \E s \in Slots :
      /\ reqs[s].kind = "signup" /\ reqs[s].pc = "creating"
      /\ reqs'[s].pc = "created"
      /\ reqs'[s].user # None
      /\ reqs'[s].user[1] \notin store
      /\ store' = store \cup {reqs'[s].user[1]}

\* C9: no two accounts ever share a username, and the accounts change only by a
\* successful sign-up adding one: sign-in, protect and failed sign-ups leave the set
\* of accounts and every account's fields as they are.
C9_UniqueAndStable ==
  []UniqueUsernames /\ [][StoreChangesOnlyBySignup]_vars

C9_Witness ==
  /\ Cardinality(store) = 2
  /\ \E s \in Slots : SignupDone(s) /\ reqs[s].error = "P2002"

\* C10: no handler or middleware sends a second response for a request it has
\* already answered, and protect never both sends a response and calls next.
C10_AtMostOneResponse ==
  \A s \in Slots :
    /\ Len(reqs[s].calls) <= 1
    /\ ~(reqs[s].calls # <<>> /\ reqs[s].nextCalls > 0)
====
